---- MODULE Spec2Model ----
(***************************************************************************)
(* A model of package mog (src/mog.go): the Mog facade over a MongoDB      *)
(* collection.  The state is the Mog struct's staging fields, the native   *)
(* cursor held in mog.iter, and the record of the last method call (its    *)
(* arguments, the request it sent to the store, the store's reply and the  *)
(* value it returned).  The store (the mongo driver and the server behind  *)
(* it) is the environment: it answers every request with success or with   *)
(* an error, chosen nondeterministically; of its contents the model keeps  *)
(* the documents the bulk inserts put into each collection.                *)
(***************************************************************************)
EXTENDS Integers, Sequences, FiniteSets, TLC

VARIABLES
    collectionName,  \* mog.collectionName / mog.collection
    projectFlds,     \* mog.projectFlds (bson.M or nil)
    bulkWrites,      \* mog.bulkWrites ([]mongo.WriteModel)
    iter,            \* mog.iter (*mongo.Cursor)
    iterErr,         \* mog.iterErr
    limit,           \* mog.limit
    upsert,          \* mog.upsert
    AggPipeline,     \* mog.AggPipeline ([]bson.M)
    orphans,         \* native streams left open that mog.iter no longer holds
    stored,          \* the store: the documents (by _id) of each collection
    sinceStart,      \* history: the operations added since the most recent BulkStart
    seqs,            \* the position of each call sequence that shares the facade
    last             \* the last method call: arguments, request, reply, result

vars == <<collectionName, projectFlds, bulkWrites, iter, iterErr, limit, upsert,
          AggPipeline, orphans, stored, sinceStart, seqs, last>>

(***************************************************************************)
(* Bounds of the model.                                                    *)
(***************************************************************************)
MaxLimit == 2      \* SetLimit is called with -1 .. MaxLimit
MaxDocs == 2       \* a result stream holds at most MaxDocs records
MaxFlds == 2       \* Keep / Omit are called with at most MaxFlds field names
MaxBulk == 2       \* a bulk batch holds at most MaxBulk operations
MaxCount == 1      \* a count the store reports for updates is in 0 .. MaxCount
MaxOrphans == 1    \* streams left open behind a replaced mog.iter
MaxTokLen == 2     \* a sort token has at most MaxTokLen characters
MaxKeyFlds == 3    \* CreateSortOrder alone is applied to at most MaxKeyFlds tokens
MaxSince == 3      \* at most MaxSince operations are added between two BulkStart calls
MaxStages == 2     \* AggPipeline holds at most MaxStages stages
MaxRecs == 3       \* AggTotal is run over at most MaxRecs records

(***************************************************************************)
(* Values.                                                                 *)
(***************************************************************************)
Range(s) == {s[i] : i \in DOMAIN s}
SeqsUpTo(S, n) == UNION {[1..k -> S] : k \in 0..n}
Min(a, b) == IF a < b THEN a ELSE b

NoErr == "nil"
StoreErrs == {"errStore"}
ErrDecode == "errDecode"
ErrNilCriteria == "nil criteria not allowed for update"

Collections == {"property", "location"}
Fields == {"city", "st"}
Docs == {"d1", "d2"}
Chars == {"-", "a"}
Limits == (-1)..MaxLimit

\* A string is the sequence of its characters.
Tokens == SeqsUpTo(Chars, MaxTokLen)
\* The sortFlds the find methods are called with: none, "-a", "".
SortArgs == {<<>>, <<(<<"-", "a">>)>>, <<(<<>>)>>}
KeyFldLists == SeqsUpTo(Tokens, MaxKeyFlds)
FldLists == SeqsUpTo(Fields, MaxFlds)

\* criteria interface{}: nil, or a document (bson.D: a sequence of elements).
NilCriteria == [nil |-> TRUE, doc |-> <<>>]
EmptyD == [nil |-> FALSE, doc |-> <<>>]
SomeCriteria == [nil |-> FALSE, doc |-> <<[Key |-> "city", Value |-> "Wonder"]>>]
Criterias == {NilCriteria, EmptyD, SomeCriteria}

\* bson.D{{}}: a document of ONE element, the zero bson.E (empty key, nil value).
BlankElemD == [nil |-> FALSE, doc |-> <<[Key |-> "", Value |-> "nil"]>>]

\* mog.projectFlds: nil, or a map from field name to 0 / 1.
NilM == [nil |-> TRUE, m |-> <<>>]
MakeM(S, v) == [nil |-> FALSE, m |-> [f \in S |-> v]]

\* An option of a request: unset, or set to a value.
NoLimit == [set |-> FALSE, v |-> 0]
NoSort == [set |-> FALSE, v |-> <<>>]
NoProjection == [set |-> FALSE, v |-> <<>>]
NoUpsert == [set |-> FALSE, v |-> FALSE]
SetTo(v) == [set |-> TRUE, v |-> v]

\* *mongo.Cursor: nil, or a stream of the records still to come.
NilCursor == [nil |-> TRUE, recs |-> <<>>, closed |-> FALSE]
NewCursor(k) == [nil |-> FALSE, recs |-> [i \in 1..k |-> i], closed |-> FALSE]
IsOpen(c) == ~c.nil /\ ~c.closed

\* The request a method sends to the store.
NoReq == [kind |-> "none", collection |-> "", filter |-> NilCriteria, sort |-> NoSort,
          projection |-> NoProjection, limit |-> NoLimit, upsert |-> NoUpsert,
          models |-> <<>>, pipeline |-> <<>>]

\* The store's reply: ok (a result, no error), errRes (a result and an error),
\* errNil (no result object, an error).
NoReply == [kind |-> "none", err |-> NoErr, k |-> 0, n1 |-> 0, n2 |-> 0]
OkReply == [NoReply EXCEPT !.kind = "ok"]
ErrReplies == {[NoReply EXCEPT !.kind = "errNil", !.err = e] : e \in StoreErrs}

\* What a method hands back to its caller.
Void == [kind |-> "void", count |-> 0, more |-> FALSE, doc |-> 0, err |-> NoErr,
         order |-> <<>>, docs |-> <<>>, groups |-> {}]
Panic == [Void EXCEPT !.kind = "panic"]
Return == [Void EXCEPT !.kind = "return"]

\* The arguments of the aggregation and document methods, "" where not given.
NoArgs == [doc |-> "", opCode |-> "", opParms |-> "", fromCollection |-> "",
           localField |-> "", asName |-> "", groupField |-> ""]

\* recs: the records of the current collection, in stream order, where the call is
\* followed through the store's evaluation of the pipeline.
Call(op) == [op |-> op, criteria |-> NilCriteria, flds |-> <<>>, args |-> NoArgs,
             recs |-> <<>>, req |-> NoReq, reply |-> NoReply, ret |-> Void]

\* The call sequences that share one facade without synchronization, each a staging
\* call followed by the call meant to use what was staged.  pc: where the sequence
\* is; hit: a call of the other sequence consumed or overwrote what this one had
\* staged; lost: the second call of this sequence ran without what it had staged.
Sequences == {1, 2}
Programs == {"limit", "projection", "upsert", "batch", "iterator"}
NoSeq == [prog |-> "none", pc |-> "start", staged |-> <<>>, hit |-> FALSE,
          lost |-> FALSE]
NoSeqs == [p \in Sequences |-> NoSeq]

\* A panic that nothing recovers ends the call sequence.
Running == last.ret.kind # "panic"

(***************************************************************************)
(* CreateSortOrder (pure).  keyFld[0:1] is out of range for the empty      *)
(* string: the function panics and returns nothing.                        *)
(***************************************************************************)
SortElem(keyFld) ==
    IF SubSeq(keyFld, 1, 1) = <<"-">>
        THEN [Key |-> Tail(keyFld), Value |-> -1]
        ELSE [Key |-> keyFld, Value |-> 1]

CreateSortOrder(keyFlds) ==
    IF \E i \in DOMAIN keyFlds : Len(keyFlds[i]) = 0
        THEN [panic |-> TRUE, order |-> <<>>]
        ELSE [panic |-> FALSE, order |-> [i \in DOMAIN keyFlds |-> SortElem(keyFlds[i])]]

(***************************************************************************)
(* The store: the replies the driver can give to each request.             *)
(***************************************************************************)
\* collection.Find: a cursor and no error, or no cursor and an error.  A limit
\* bounds the records of the stream.
StoreFind(req) ==
    {[OkReply EXCEPT !.k = k] :
        k \in 0..(IF req.limit.set THEN Min(req.limit.v, MaxDocs) ELSE MaxDocs)}
    \cup ErrReplies

\* collection.FindOne(...).Decode: the first record, mongo.ErrNoDocuments, or an error.
StoreFindOne(req) ==
    {[OkReply EXCEPT !.k = 1], [NoReply EXCEPT !.kind = "errNil", !.err = "ErrNoDocuments"]}
    \cup ErrReplies

\* collection.FindOne({"_id": docId}).Decode on a collection holding the documents
\* have: the document when it is there, mongo.ErrNoDocuments when not, or an error.
StoreFindById(docId, have) ==
    (IF docId \in have
        THEN {[OkReply EXCEPT !.k = 1]}
        ELSE {[NoReply EXCEPT !.kind = "errNil", !.err = "ErrNoDocuments"]})
    \cup ErrReplies

\* collection.Aggregate: a cursor and no error, or no cursor and an error.
StoreAggregate(req) == {[OkReply EXCEPT !.k = k] : k \in 0..MaxDocs} \cup ErrReplies

\* collection.CountDocuments: a count, or an error.
StoreCount(req) ==
    {[OkReply EXCEPT !.k = k] :
        k \in 0..(IF req.limit.set THEN Min(req.limit.v, MaxDocs) ELSE MaxDocs)}
    \cup ErrReplies

\* collection.UpdateMany / BulkWrite: a result object (n1, n2 its two counts) with or
\* without an error, or a nil result object with an error.
StoreWrite(req) ==
    {[OkReply EXCEPT !.n1 = a, !.n2 = b] : a \in 0..MaxCount, b \in 0..MaxCount}
    \cup {[NoReply EXCEPT !.kind = "errRes", !.err = e, !.n1 = a, !.n2 = b] :
            e \in StoreErrs, a \in 0..MaxCount, b \in 0..MaxCount}
    \cup ErrReplies

\* An ordered bulk write applies its operations one after the other and stops at
\* the first that fails.  An insert fails when its _id is already in the collection.
IsInsert(model) == model.type = "insertOne"
NumInserts(models) == Cardinality({i \in DOMAIN models : IsInsert(models[i])})
InsertedDocs(models) == {models[i].doc : i \in {j \in DOMAIN models : IsInsert(models[j])}}
Applies(models, have) ==
    \A i \in DOMAIN models :
        IsInsert(models[i]) =>
            /\ models[i].doc \notin have
            /\ \A j \in 1..(i - 1) : IsInsert(models[j]) => models[j].doc # models[i].doc

\* The store after it applied models, and its result object: n1 the inserted
\* count, n2 the modified count.
BulkApplied(models, have, kind, err) ==
    {[reply |-> [NoReply EXCEPT !.kind = kind, !.err = err,
                                !.n1 = NumInserts(models), !.n2 = m],
      docs |-> have \cup InsertedDocs(models)] :
        m \in 0..(IF \E i \in DOMAIN models : ~IsInsert(models[i]) THEN MaxCount ELSE 0)}

\* collection.BulkWrite on a collection holding the documents have: the whole batch
\* applied; a part of it applied and an error; nothing applied, no result object
\* and an error.  The driver refuses an empty batch before it reaches the server:
\* no result object, mongo.ErrEmptySlice.
StoreBulkWrite(req, have) ==
    IF Len(req.models) = 0
        THEN {[reply |-> [NoReply EXCEPT !.kind = "errNil", !.err = "ErrEmptySlice"],
               docs |-> have]}
        ELSE (IF Applies(req.models, have)
                THEN BulkApplied(req.models, have, "ok", NoErr) ELSE {})
             \cup UNION {BulkApplied(SubSeq(req.models, 1, n), have, "errRes", e) :
                            n \in {q \in 0..(Len(req.models) - 1) :
                                      Applies(SubSeq(req.models, 1, q), have)},
                            e \in StoreErrs}
             \cup {[reply |-> r, docs |-> have] : r \in ErrReplies}

\* collection.ReplaceOne: the result is dropped by the caller; only the error counts.
StoreReplace(req) == {OkReply} \cup ErrReplies

(***************************************************************************)
(* The option blocks of the find, count and update methods.                *)
(***************************************************************************)
\* if len(sortFlds) > 0 { findOptions.SetSort(CreateSortOrder(sortFlds)) }
SortOption(sortFlds) ==
    IF Len(sortFlds) > 0 THEN SetTo(CreateSortOrder(sortFlds).order) ELSE NoSort

SortPanics(sortFlds) == Len(sortFlds) > 0 /\ CreateSortOrder(sortFlds).panic

\* if mog.projectFlds != nil { findOptions.SetProjection(mog.projectFlds) }
ProjectionOptionOnce(p) == IF ~p.nil /\ last.req.projection.set THEN NoProjection
                           ELSE IF ~p.nil THEN SetTo(p.m) ELSE NoProjection
ProjectionOption(p) == IF ~p.nil THEN SetTo(p.m) ELSE NoProjection

\* if mog.limit > 0 { options.SetLimit(mog.limit); mog.limit = 0 }
LimitOption(l) == IF l > 0 THEN SetTo(l) ELSE NoLimit
LimitAfterKept(l) == l
LimitAfter(l) == IF l > 0 THEN 0 ELSE l

\* if mog.upsert { options.SetUpsert(true); mog.upsert = false }
UpsertOption(u) == IF u THEN SetTo(TRUE) ELSE NoUpsert
UpsertAfterKept(u) == u
UpsertAfter(u) == IF u THEN FALSE ELSE u

\* Find: if criteria == nil { criteria = bson.D{{}} }
FindFilter(criteria) == IF criteria.nil THEN BlankElemD ELSE criteria

\* FindAll: if criteria == nil { criteria = make(bson.D, 0) }
FindAllFilter(criteria) == IF criteria.nil THEN EmptyD ELSE criteria

\* FindOne and Count hand criteria to the store as it is.
FindOneFilter(criteria) == criteria
CountFilter(criteria) == criteria

\* Update: if criteria == nil { return 0, errors.New(...) }
\* The upsert flag after an Update that returned at its nil check, which comes
\* before the flag is read.
UpsertAfterRejectedCleared(u) == FALSE
UpsertAfterRejected(u) == u

UpdateRejectsEmpty(criteria) == criteria.nil \/ Len(criteria.doc) = 0
UpdateRejects(criteria) == criteria.nil

(***************************************************************************)
(* Setters.                                                                *)
(***************************************************************************)
SetCollection(name) ==
    /\ Running
    /\ collectionName' = name
    /\ last' = Call("SetCollection")
    /\ UNCHANGED <<projectFlds, bulkWrites, iter, iterErr, limit, upsert, orphans>>
    /\ UNCHANGED <<sinceStart, stored, AggPipeline>>
    /\ UNCHANGED seqs

DoSetLimit(n) ==
    /\ Running
    /\ limit' = n
    /\ last' = Call("SetLimit")
    /\ UNCHANGED <<collectionName, projectFlds, bulkWrites, iter, iterErr, upsert, orphans>>
    /\ UNCHANGED <<sinceStart, stored, AggPipeline>>

SetLimit(n) == DoSetLimit(n) /\ UNCHANGED seqs

DoUpsert ==
    /\ Running
    /\ upsert' = TRUE
    /\ last' = Call("Upsert")
    /\ UNCHANGED <<collectionName, projectFlds, bulkWrites, iter, iterErr, limit, orphans>>
    /\ UNCHANGED <<sinceStart, stored, AggPipeline>>

Upsert == DoUpsert /\ UNCHANGED seqs

\* The map Keep / Omit build: every listed field marked v.
KeepFldsMerged(flds) ==
    IF Len(flds) = 0 THEN NilM ELSE MakeM(Range(flds) \cup DOMAIN projectFlds.m, 1)
KeepFlds(flds) == IF Len(flds) = 0 THEN NilM ELSE MakeM(Range(flds), 1)
OmitFlds(flds) == IF Len(flds) = 0 THEN NilM ELSE MakeM(Range(flds), 0)

DoKeep(flds) ==
    /\ Running
    /\ projectFlds' = KeepFlds(flds)
    /\ last' = [Call("Keep") EXCEPT !.flds = flds]
    /\ UNCHANGED <<collectionName, bulkWrites, iter, iterErr, limit, upsert, orphans>>
    /\ UNCHANGED <<sinceStart, stored, AggPipeline>>

Keep(flds) == DoKeep(flds) /\ UNCHANGED seqs

Omit(flds) ==
    /\ Running
    /\ projectFlds' = OmitFlds(flds)
    /\ last' = [Call("Omit") EXCEPT !.flds = flds]
    /\ UNCHANGED <<collectionName, bulkWrites, iter, iterErr, limit, upsert, orphans>>
    /\ UNCHANGED <<sinceStart, stored, AggPipeline>>
    /\ UNCHANGED seqs

(***************************************************************************)
(* Find methods and Count.                                                 *)
(***************************************************************************)
FindRequest(criteria, sortFlds) ==
    [NoReq EXCEPT !.kind = "find", !.collection = collectionName,
                  !.filter = FindFilter(criteria), !.sort = SortOption(sortFlds),
                  !.projection = ProjectionOption(projectFlds),
                  !.limit = LimitOption(limit)]

\* The cursor is stored whatever the error; the error itself is dropped
\* (cursor, _ := mog.collection.Find(...)).
DoFind(criteria, sortFlds) ==
    /\ Running
    /\ IF SortPanics(sortFlds)
         THEN /\ last' = [Call("Find") EXCEPT !.criteria = criteria, !.ret = Panic]
              /\ UNCHANGED <<limit, iter, orphans>>
         ELSE \E reply \in StoreFind(FindRequest(criteria, sortFlds)) :
                /\ IsOpen(iter) => orphans < MaxOrphans
                /\ limit' = LimitAfter(limit)
                /\ iter' = IF reply.kind = "ok" THEN NewCursor(reply.k) ELSE NilCursor
                /\ orphans' = IF IsOpen(iter) THEN orphans + 1 ELSE orphans
                /\ last' = [Call("Find") EXCEPT !.criteria = criteria,
                                !.req = FindRequest(criteria, sortFlds),
                                !.reply = reply]
    /\ UNCHANGED <<collectionName, projectFlds, bulkWrites, iterErr, upsert>>
    /\ UNCHANGED <<sinceStart, stored, AggPipeline>>

Find(criteria, sortFlds) == DoFind(criteria, sortFlds) /\ UNCHANGED seqs

FindAllRequest(criteria, sortFlds) ==
    [FindRequest(criteria, sortFlds) EXCEPT !.filter = FindAllFilter(criteria)]

\* if err != nil { return err }; err = cursor.All(mog.ctx, docs); return err.
\* cursor.All decodes every record into docs (count: how many) and closes the cursor.
FindAllResults(reply) ==
    IF reply.kind # "ok"
        THEN {[Return EXCEPT !.err = reply.err]}
        ELSE {[Return EXCEPT !.count = reply.k]}
             \cup (IF reply.k > 0 THEN {[Return EXCEPT !.err = ErrDecode]} ELSE {})

FindAll(criteria, sortFlds) ==
    /\ Running
    /\ IF SortPanics(sortFlds)
         THEN /\ last' = [Call("FindAll") EXCEPT !.criteria = criteria, !.ret = Panic]
              /\ UNCHANGED limit
         ELSE \E reply \in StoreFind(FindAllRequest(criteria, sortFlds)) :
                \E ret \in FindAllResults(reply) :
                /\ limit' = LimitAfter(limit)
                /\ last' = [Call("FindAll") EXCEPT !.criteria = criteria,
                                !.req = FindAllRequest(criteria, sortFlds),
                                !.reply = reply, !.ret = ret]
    /\ UNCHANGED <<collectionName, projectFlds, bulkWrites, iter, iterErr, upsert, orphans>>
    /\ UNCHANGED <<sinceStart, stored, AggPipeline>>
    /\ UNCHANGED seqs

FindOneRequest(criteria, sortFlds) ==
    [NoReq EXCEPT !.kind = "findOne", !.collection = collectionName,
                  !.filter = FindOneFilter(criteria), !.sort = SortOption(sortFlds),
                  !.projection = ProjectionOption(projectFlds)]

\* err := mog.collection.FindOne(...).Decode(doc); return err.
FindOneResultsNotFoundAsZero(reply) ==
    IF reply.kind # "ok"
        THEN {[Return EXCEPT !.err = IF reply.err = "ErrNoDocuments" THEN NoErr
                                      ELSE reply.err]}
        ELSE {[Return EXCEPT !.doc = 1], [Return EXCEPT !.err = ErrDecode]}
FindOneResults(reply) ==
    IF reply.kind # "ok"
        THEN {[Return EXCEPT !.err = reply.err]}
        ELSE {[Return EXCEPT !.doc = 1], [Return EXCEPT !.err = ErrDecode]}

\* The pending limit after FindOne, which builds its options from the sort and the
\* projection only and never reads the limit.
LimitAfterFindOneCleared(l) == 0
LimitAfterFindOne(l) == l

FindOne(criteria, sortFlds) ==
    /\ Running
    /\ IF SortPanics(sortFlds)
         THEN last' = [Call("FindOne") EXCEPT !.criteria = criteria, !.ret = Panic]
         ELSE \E reply \in StoreFindOne(FindOneRequest(criteria, sortFlds)) :
                \E ret \in FindOneResults(reply) :
                last' = [Call("FindOne") EXCEPT !.criteria = criteria,
                                !.req = FindOneRequest(criteria, sortFlds),
                                !.reply = reply, !.ret = ret]
    /\ limit' = LimitAfterFindOne(limit)
    /\ UNCHANGED <<collectionName, projectFlds, bulkWrites, iter, iterErr, upsert, orphans>>
    /\ UNCHANGED <<sinceStart, stored, AggPipeline>>
    /\ UNCHANGED seqs

\* criteria := bson.M{"_id": docId}; no option is given.
IdCriteria(docId) == [nil |-> FALSE, doc |-> <<[Key |-> "_id", Value |-> docId]>>]

FindIdRequest(docId) ==
    [NoReq EXCEPT !.kind = "findOne", !.collection = collectionName,
                  !.filter = IdCriteria(docId)]

FindId(docId) ==
    /\ Running
    /\ \E reply \in StoreFindById(docId, stored[collectionName]) :
         \E ret \in FindOneResults(reply) :
            last' = [Call("FindId") EXCEPT !.args.doc = docId,
                            !.req = FindIdRequest(docId),
                            !.reply = reply, !.ret = ret]
    /\ UNCHANGED <<collectionName, projectFlds, bulkWrites, iter, iterErr, limit, upsert,
                   orphans>>
    /\ UNCHANGED <<sinceStart, stored, AggPipeline>>
    /\ UNCHANGED seqs

CountRequest(criteria) ==
    [NoReq EXCEPT !.kind = "count", !.collection = collectionName,
                  !.filter = CountFilter(criteria), !.limit = LimitOption(limit)]

Count(criteria) ==
    /\ Running
    /\ \E reply \in StoreCount(CountRequest(criteria)) :
         /\ limit' = LimitAfter(limit)
         /\ last' = [Call("Count") EXCEPT !.criteria = criteria,
                         !.req = CountRequest(criteria), !.reply = reply,
                         !.ret = [Return EXCEPT !.count = reply.k, !.err = reply.err]]
    /\ UNCHANGED <<collectionName, projectFlds, bulkWrites, iter, iterErr, upsert, orphans>>
    /\ UNCHANGED <<sinceStart, stored, AggPipeline>>
    /\ UNCHANGED seqs

(***************************************************************************)
(* The iterator.                                                           *)
(***************************************************************************)
\* cursor.Next followed by cursor.Err: another record, or no more (the stream is
\* exhausted or closed, or the store failed while fetching).
CursorNext(c) ==
    IF c.closed
        THEN {[more |-> FALSE, err |-> NoErr]}
        ELSE IF c.recs = <<>>
            THEN {[more |-> FALSE, err |-> e] : e \in {NoErr} \cup StoreErrs}
            ELSE {[more |-> TRUE, err |-> NoErr]}
                 \cup {[more |-> FALSE, err |-> e] : e \in StoreErrs}

\* mog.iter.Close(mog.ctx)
CloseCursorForgotten(c) == c
CloseCursor(c) == [c EXCEPT !.closed = TRUE]

\* if err != nil { log.Println(...); mog.iterErr = err; return false }
NextOnDecodeErrorSwallowed(err) == [iterErr |-> iterErr, more |-> FALSE]
NextOnDecodeError(err) == [iterErr |-> err, more |-> FALSE]

\* What the native stream told Next: no more records (err: the stream's terminal
\* error), a record that decoded, or a record whose decoding failed with err.
CursorReply(kind, err) == [NoReply EXCEPT !.kind = kind, !.err = err]

\* A nil mog.iter (no Find yet, or a Find the store refused) is dereferenced.
DoNext ==
    /\ Running
    /\ IF iter.nil
         THEN /\ last' = [Call("Next") EXCEPT !.ret = Panic]
              /\ UNCHANGED <<iter, iterErr>>
         ELSE \E o \in CursorNext(iter), decodeErr \in {NoErr, ErrDecode} :
                IF ~o.more
                  THEN /\ iterErr' = o.err
                       /\ iter' = CloseCursor(iter)
                       /\ last' = [Call("Next") EXCEPT
                                       !.reply = CursorReply("noMore", o.err),
                                       !.ret = Return]
                  ELSE /\ iter' = [iter EXCEPT !.recs = Tail(@)]
                       /\ IF decodeErr # NoErr
                            THEN /\ iterErr' = NextOnDecodeError(decodeErr).iterErr
                                 /\ last' = [Call("Next") EXCEPT
                                       !.reply = CursorReply("undecodable", decodeErr),
                                       !.ret = [Return EXCEPT
                                          !.more = NextOnDecodeError(decodeErr).more]]
                            ELSE /\ iterErr' = iterErr
                                 /\ last' = [Call("Next") EXCEPT
                                       !.reply = CursorReply("record", NoErr),
                                       !.ret = [Return EXCEPT !.more = TRUE,
                                                              !.doc = Head(iter.recs)]]
    /\ UNCHANGED <<collectionName, projectFlds, bulkWrites, limit, upsert, orphans>>
    /\ UNCHANGED <<sinceStart, stored, AggPipeline>>

Next == DoNext /\ UNCHANGED seqs

IterErr ==
    /\ Running
    /\ last' = [Call("IterErr") EXCEPT !.ret = [Return EXCEPT !.err = iterErr]]
    /\ UNCHANGED <<collectionName, projectFlds, bulkWrites, iter, iterErr, limit, upsert,
                   orphans>>
    /\ UNCHANGED <<sinceStart, stored, AggPipeline>>
    /\ UNCHANGED seqs

CloseIter ==
    /\ Running
    /\ IF iter.nil
         THEN /\ last' = [Call("CloseIter") EXCEPT !.ret = Panic]
              /\ UNCHANGED iter
         ELSE \E e \in {NoErr} \cup StoreErrs :
                /\ iter' = CloseCursor(iter)
                /\ last' = [Call("CloseIter") EXCEPT !.ret = [Return EXCEPT !.err = e]]
    /\ UNCHANGED <<collectionName, projectFlds, bulkWrites, iterErr, limit, upsert, orphans>>
    /\ UNCHANGED <<sinceStart, stored, AggPipeline>>
    /\ UNCHANGED seqs

(***************************************************************************)
(* Update and Replace.                                                     *)
(***************************************************************************)
UpdateRequest(criteria) ==
    [NoReq EXCEPT !.kind = "updateMany", !.collection = collectionName,
                  !.filter = criteria, !.upsert = UpsertOption(upsert)]

\* changeInfo.ModifiedCount + changeInfo.UpsertedCount is evaluated before err is
\* looked at: a nil changeInfo is dereferenced.
UpdateResult(reply) ==
    IF reply.kind = "errNil"
        THEN Panic
        ELSE [Return EXCEPT !.count = reply.n1 + reply.n2, !.err = reply.err]

DoUpdate(criteria) ==
    /\ Running
    /\ IF UpdateRejects(criteria)
         THEN /\ last' = [Call("Update") EXCEPT !.criteria = criteria,
                               !.ret = [Return EXCEPT !.err = ErrNilCriteria]]
              /\ upsert' = UpsertAfterRejected(upsert)
         ELSE \E reply \in StoreWrite(UpdateRequest(criteria)) :
                /\ upsert' = UpsertAfter(upsert)
                /\ last' = [Call("Update") EXCEPT !.criteria = criteria,
                               !.req = UpdateRequest(criteria), !.reply = reply,
                               !.ret = UpdateResult(reply)]
    /\ UNCHANGED <<collectionName, projectFlds, bulkWrites, iter, iterErr, limit, orphans>>
    /\ UNCHANGED <<sinceStart, stored, AggPipeline>>

Update(criteria) == DoUpdate(criteria) /\ UNCHANGED seqs

ReplaceRequest(criteria) ==
    [NoReq EXCEPT !.kind = "replaceOne", !.collection = collectionName,
                  !.filter = criteria, !.upsert = UpsertOption(upsert)]

Replace(criteria) ==
    /\ Running
    /\ \E reply \in StoreReplace(ReplaceRequest(criteria)) :
         /\ upsert' = UpsertAfter(upsert)
         /\ last' = [Call("Replace") EXCEPT !.criteria = criteria,
                        !.req = ReplaceRequest(criteria), !.reply = reply,
                        !.ret = [Return EXCEPT !.err = reply.err]]
    /\ UNCHANGED <<collectionName, projectFlds, bulkWrites, iter, iterErr, limit, orphans>>
    /\ UNCHANGED <<sinceStart, stored, AggPipeline>>
    /\ UNCHANGED seqs

\* UpdateId updates the document with the given id: one update-one request filtered
\* on _id, with no options, whose result object is discarded.
UpdateIdRequest(docId) ==
    [NoReq EXCEPT !.kind = "updateOne", !.collection = collectionName,
                  !.filter = IdCriteria(docId)]

UpdateId(docId) ==
    /\ Running
    /\ \E reply \in StoreWrite(UpdateIdRequest(docId)) :
         last' = [Call("UpdateId") EXCEPT !.args.doc = docId,
                        !.req = UpdateIdRequest(docId), !.reply = reply,
                        !.ret = [Return EXCEPT !.err = reply.err]]
    /\ UNCHANGED <<collectionName, projectFlds, bulkWrites, iter, iterErr, limit, upsert,
                   orphans>>
    /\ UNCHANGED <<sinceStart, stored, AggPipeline>>
    /\ UNCHANGED seqs

(***************************************************************************)
(* Bulk writes.  A nil slice and an empty slice both have length 0 and     *)
(* append alike: both are the empty sequence.                              *)
(***************************************************************************)
InsertOneModel(doc) == [type |-> "insertOne", doc |-> doc, filter |-> NilCriteria]
UpdateManyModel(criteria) == [type |-> "updateMany", doc |-> "", filter |-> criteria]

\* The history of the batch: the add calls made since the most recent BulkStart
\* (since NewMog before the first), and how many of them a BulkWrite has submitted.
NoHistory == [ops |-> <<>>, submitted |-> 0]
Added(op, doc, criteria) == [op |-> op, doc |-> doc, criteria |-> criteria]

\* mog.bulkWrites = append(mog.bulkWrites, model)
BulkAddFront(batch, model) == <<model>> \o batch
BulkAdd(batch, model) == Append(batch, model)

BulkStart ==
    /\ Running
    /\ bulkWrites' = <<>>
    /\ sinceStart' = NoHistory
    /\ last' = Call("BulkStart")
    /\ UNCHANGED <<collectionName, projectFlds, iter, iterErr, limit, upsert, orphans>>
    /\ UNCHANGED <<stored, AggPipeline>>
    /\ UNCHANGED seqs

DoBulkAddInsert(doc) ==
    /\ Running
    /\ Len(bulkWrites) < MaxBulk
    /\ Len(sinceStart.ops) < MaxSince
    /\ bulkWrites' = BulkAdd(bulkWrites, InsertOneModel(doc))
    /\ sinceStart' = [sinceStart EXCEPT
                        !.ops = Append(@, Added("BulkAddInsert", doc, NilCriteria))]
    /\ last' = [Call("BulkAddInsert") EXCEPT !.args.doc = doc]
    /\ UNCHANGED <<collectionName, projectFlds, iter, iterErr, limit, upsert, orphans>>
    /\ UNCHANGED <<stored, AggPipeline>>

BulkAddInsert(doc) == DoBulkAddInsert(doc) /\ UNCHANGED seqs

BulkAddUpdate(criteria) ==
    /\ Running
    /\ Len(bulkWrites) < MaxBulk
    /\ Len(sinceStart.ops) < MaxSince
    /\ bulkWrites' = BulkAdd(bulkWrites, UpdateManyModel(criteria))
    /\ sinceStart' = [sinceStart EXCEPT
                        !.ops = Append(@, Added("BulkAddUpdate", "", criteria))]
    /\ last' = [Call("BulkAddUpdate") EXCEPT !.criteria = criteria]
    /\ UNCHANGED <<collectionName, projectFlds, iter, iterErr, limit, upsert, orphans>>
    /\ UNCHANGED <<stored, AggPipeline>>
    /\ UNCHANGED seqs

BulkWriteRequestAllButLast ==
    [NoReq EXCEPT !.kind = "bulkWrite", !.collection = collectionName,
                  !.models = SubSeq(bulkWrites, 1, Len(bulkWrites) - 1)]
BulkWriteRequest ==
    [NoReq EXCEPT !.kind = "bulkWrite", !.collection = collectionName,
                  !.models = bulkWrites]

\* mog.bulkWrites = nil, whatever BulkWrite returned.
BulkWritesAfterKeptOnError(reply) == IF reply.err = NoErr THEN <<>> ELSE bulkWrites
BulkWritesAfter(reply) == <<>>

\* result.InsertedCount + result.ModifiedCount is evaluated before err is looked
\* at: a nil result is dereferenced, after mog.bulkWrites was cleared.
BulkWriteResultInsertedOnly(reply) ==
    IF reply.kind = "errNil"
        THEN Panic
        ELSE [Return EXCEPT !.count = reply.n1, !.err = reply.err]
BulkWriteResult(reply) ==
    IF reply.kind = "errNil"
        THEN Panic
        ELSE [Return EXCEPT !.count = reply.n1 + reply.n2, !.err = reply.err]

DoBulkWrite ==
    /\ Running
    /\ \E o \in StoreBulkWrite(BulkWriteRequest, stored[collectionName]) :
         /\ bulkWrites' = BulkWritesAfter(o.reply)
         /\ stored' = [stored EXCEPT ![collectionName] = o.docs]
         /\ sinceStart' = [sinceStart EXCEPT !.submitted = Len(sinceStart.ops)]
         /\ last' = [Call("BulkWrite") EXCEPT !.req = BulkWriteRequest,
                        !.reply = o.reply, !.ret = BulkWriteResult(o.reply)]
    /\ UNCHANGED <<collectionName, projectFlds, iter, iterErr, limit, upsert, orphans>>
    /\ UNCHANGED AggPipeline

BulkWrite == DoBulkWrite /\ UNCHANGED seqs

\* Insert adds the documents with one insert-many request, the documents carried in
\* the request as insert models in argument order; the result object is discarded.
InsertRequest(docs) ==
    [NoReq EXCEPT !.kind = "insertMany", !.collection = collectionName,
                  !.models = [i \in DOMAIN docs |-> InsertOneModel(docs[i])]]

Insert(docs) ==
    /\ Running
    /\ \E o \in StoreBulkWrite(InsertRequest(docs), stored[collectionName]) :
         /\ stored' = [stored EXCEPT ![collectionName] = o.docs]
         /\ last' = [Call("Insert") EXCEPT !.req = InsertRequest(docs),
                        !.reply = o.reply, !.ret = [Return EXCEPT !.err = o.reply.err]]
    /\ UNCHANGED <<collectionName, projectFlds, bulkWrites, iter, iterErr, limit, upsert,
                   orphans>>
    /\ UNCHANGED <<sinceStart, AggPipeline>>
    /\ UNCHANGED seqs

(***************************************************************************)
(* Aggregation.  A stage is a bson.M of one key, the operator, and its      *)
(* value.  "$" + str is the pair of "$" and str; a bson.M of field markers  *)
(* is the set of its key / value pairs.                                    *)
(***************************************************************************)
Dollar(str) == <<"$", str>>

NoValue == [opParms |-> "", from |-> "", localField |-> "", foreignField |-> "",
            as |-> "", flds |-> {}, order |-> <<>>, path |-> <<>>, id |-> <<>>,
            accumulators |-> {}]
Stage(opCode, value) == [opCode |-> opCode, value |-> value]

\* mog.AggPipeline = append(mog.AggPipeline, stage)
AggAppendTwice(pipeline, stage) == Append(Append(pipeline, stage), stage)
AggAppend(pipeline, stage) == Append(pipeline, stage)

\* opCode := "$" + op; stage := bson.M{opCode: opParms}
AggStageOf(op, value) == Stage(Dollar(op), value)

\* bson.M{"from": fromCollection, "localField": localField, "foreignField": "_id",
\*        "as": asName}
LookupValue(fromCollection, localField, asName) ==
    [NoValue EXCEPT !.from = fromCollection, !.localField = localField,
                    !.foreignField = "_id", !.as = asName]

\* bson.M{"$unwind": "$" + asName}
UnwindStage(asName) == Stage(Dollar("unwind"), [NoValue EXCEPT !.path = Dollar(asName)])

\* for _, fld := range flds { projectFlds[fld] = 1 }
AggKeepValue(flds) == [NoValue EXCEPT !.flds = {<<f, 1>> : f \in Range(flds)}]

\* stage := bson.M{"$sort": sortOrder}
SortStage(sortOrder) == Stage(Dollar("sort"), [NoValue EXCEPT !.order = sortOrder])

AggStart ==
    /\ Running
    /\ AggPipeline' = <<>>
    /\ last' = Call("AggStart")
    /\ UNCHANGED <<collectionName, projectFlds, bulkWrites, iter, iterErr, limit, upsert,
                   orphans, stored, sinceStart>>
    /\ UNCHANGED seqs

AggStage(op, opParms) ==
    /\ Running
    /\ Len(AggPipeline) < MaxStages
    /\ AggPipeline' = AggAppend(AggPipeline,
                                AggStageOf(op, [NoValue EXCEPT !.opParms = opParms]))
    /\ last' = [Call("AggStage") EXCEPT !.args.opCode = op, !.args.opParms = opParms]
    /\ UNCHANGED <<collectionName, projectFlds, bulkWrites, iter, iterErr, limit, upsert,
                   orphans, stored, sinceStart>>
    /\ UNCHANGED seqs

\* The lookup stage goes through AggStage, the unwind stage is appended after it.
AggLookupStages(fromCollection, localField, asName) ==
    <<AggStageOf("lookup", LookupValue(fromCollection, localField, asName)),
      UnwindStage(asName)>>

AggLookupId(fromCollection, localField, asName) ==
    /\ Running
    /\ Len(AggPipeline) + 2 <= MaxStages
    /\ AggPipeline' =
         AggAppend(AggAppend(AggPipeline,
                             AggLookupStages(fromCollection, localField, asName)[1]),
                   AggLookupStages(fromCollection, localField, asName)[2])
    /\ last' = [Call("AggLookupId") EXCEPT !.args.fromCollection = fromCollection,
                     !.args.localField = localField, !.args.asName = asName]
    /\ UNCHANGED <<collectionName, projectFlds, bulkWrites, iter, iterErr, limit, upsert,
                   orphans, stored, sinceStart>>
    /\ UNCHANGED seqs

AggKeep(flds) ==
    /\ Running
    /\ Len(AggPipeline) < MaxStages
    /\ AggPipeline' = AggAppend(AggPipeline, AggStageOf("project", AggKeepValue(flds)))
    /\ last' = [Call("AggKeep") EXCEPT !.flds = flds]
    /\ UNCHANGED <<collectionName, projectFlds, bulkWrites, iter, iterErr, limit, upsert,
                   orphans, stored, sinceStart>>
    /\ UNCHANGED seqs

\* CreateSortOrder is called whatever the number of tokens; when it panics nothing
\* is appended.
AggSort(keyFlds) ==
    /\ Running
    /\ Len(AggPipeline) < MaxStages
    /\ IF CreateSortOrder(keyFlds).panic
         THEN /\ last' = [Call("AggSort") EXCEPT !.flds = keyFlds, !.ret = Panic]
              /\ UNCHANGED AggPipeline
         ELSE /\ AggPipeline' =
                   AggAppend(AggPipeline, SortStage(CreateSortOrder(keyFlds).order))
              /\ last' = [Call("AggSort") EXCEPT !.flds = keyFlds]
    /\ UNCHANGED <<collectionName, projectFlds, bulkWrites, iter, iterErr, limit, upsert,
                   orphans, stored, sinceStart>>
    /\ UNCHANGED seqs

\* The pipeline goes to the store as it is; AggRun does not assign mog.AggPipeline.
AggRunRequest ==
    [NoReq EXCEPT !.kind = "aggregate", !.collection = collectionName,
                  !.pipeline = AggPipeline]
PipelineAfterRunCleared(pipeline) == <<>>
PipelineAfterRun(pipeline) == pipeline

\* cursor, err := mog.collection.Aggregate(...); mog.iter = cursor
AggRunCursorEmptied(reply) == IF reply.kind = "ok" THEN NewCursor(0) ELSE NilCursor
AggRunCursor(reply) == IF reply.kind = "ok" THEN NewCursor(reply.k) ELSE NilCursor

AggRun ==
    /\ Running
    /\ \E reply \in StoreAggregate(AggRunRequest) :
         /\ IsOpen(iter) => orphans < MaxOrphans
         /\ iter' = AggRunCursor(reply)
         /\ orphans' = IF IsOpen(iter) THEN orphans + 1 ELSE orphans
         /\ AggPipeline' = PipelineAfterRun(AggPipeline)
         /\ last' = [Call("AggRun") EXCEPT !.req = AggRunRequest, !.reply = reply,
                        !.ret = [Return EXCEPT !.err = reply.err]]
    /\ UNCHANGED <<collectionName, projectFlds, bulkWrites, iterErr, limit, upsert,
                   stored, sinceStart>>
    /\ UNCHANGED seqs

\* AggRunAll: the same submission; every record of the result is decoded into the
\* caller's slice (docs), in stream order, and mog.iter is not assigned.
AggRunAllResults(reply) ==
    IF reply.kind # "ok"
        THEN {[Return EXCEPT !.err = reply.err]}
        ELSE {[Return EXCEPT !.count = reply.k, !.docs = NewCursor(reply.k).recs]}
             \cup (IF reply.k > 0 THEN {[Return EXCEPT !.err = ErrDecode]} ELSE {})

AggRunAll ==
    /\ Running
    /\ \E reply \in StoreAggregate(AggRunRequest) :
         \E ret \in AggRunAllResults(reply) :
            /\ AggPipeline' = PipelineAfterRun(AggPipeline)
            /\ last' = [Call("AggRunAll") EXCEPT !.req = AggRunRequest,
                           !.reply = reply, !.ret = ret]
    /\ UNCHANGED <<collectionName, projectFlds, bulkWrites, iter, iterErr, limit, upsert,
                   orphans, stored, sinceStart>>
    /\ UNCHANGED seqs

(***************************************************************************)
(* The facade after NewMog(ctx, db, "property"), and its call sequences.   *)
(***************************************************************************)
Init ==
    /\ collectionName = "property"
    /\ projectFlds = NilM
    /\ bulkWrites = <<>>
    /\ iter = NilCursor
    /\ iterErr = NoErr
    /\ limit = 0
    /\ upsert = FALSE
    /\ AggPipeline = <<>>
    /\ orphans = 0
    /\ seqs = NoSeqs
    /\ stored = [c \in Collections |-> {}]
    /\ sinceStart = NoHistory
    /\ last = Call("NewMog")

\* The staged limit and the methods that read it, with FindOne beside them.
Step ==
    \/ \E n \in Limits : SetLimit(n)
    \/ \E c \in Criterias, s \in SortArgs : Find(c, s)
    \/ \E c \in Criterias, s \in SortArgs : FindAll(c, s)
    \/ \E c \in Criterias, s \in SortArgs : FindOne(c, s)
    \/ \E c \in Criterias : Count(c)
    \/ CloseIter

Spec == Init /\ [][Step]_vars

\* The staged projection and the methods that read it.
ProjStep ==
    \/ \E flds \in FldLists : Keep(flds)
    \/ \E flds \in FldLists : Omit(flds)
    \/ \E c \in Criterias, s \in SortArgs : Find(c, s)
    \/ \E c \in Criterias, s \in SortArgs : FindAll(c, s)
    \/ \E c \in Criterias, s \in SortArgs : FindOne(c, s)
    \/ CloseIter

SpecProj == Init /\ [][ProjStep]_vars

\* Writes: the staged upsert flag, Update, Replace and BulkWrite of a batch of
\* inserts (StoreStep builds every batch).
WriteStep ==
    \/ Upsert
    \/ \E c \in Criterias : Update(c)
    \/ \E c \in Criterias : Replace(c)
    \/ BulkAddInsert("d1")
    \/ BulkWrite

SpecWrite == Init /\ [][WriteStep]_vars

\* The bulk batch against the documents of the store.
StoreStep ==
    \/ \E name \in Collections : SetCollection(name)
    \/ BulkStart
    \/ \E d \in Docs : BulkAddInsert(d)
    \/ BulkAddUpdate(SomeCriteria)
    \/ BulkWrite

SpecStore == Init /\ [][StoreStep]_vars

\* The single-document finds against the documents that bulk inserts put in the store.
FindIdStep ==
    \/ \E d \in Docs : BulkAddInsert(d)
    \/ BulkWrite
    \/ \E d \in Docs : FindId(d)
    \/ \E c \in Criterias : FindOne(c, <<>>)

SpecFindId == Init /\ [][FindIdStep]_vars

\* Aggregation: the methods that build the pipeline and the two that run it.
AggOps == {"match"}
OpParms == {"parms"}

AggStep ==
    \/ AggStart
    \/ \E op \in AggOps, opParms \in OpParms : AggStage(op, opParms)
    \/ AggLookupId("location", "location_id", "loc")
    \/ \E flds \in FldLists : AggKeep(flds)
    \/ \E keyFlds \in SortArgs : AggSort(keyFlds)
    \/ AggRun
    \/ AggRunAll

SpecAgg == Init /\ [][AggStep]_vars

\* Running a pipeline and walking its result.
AggRunStep ==
    \/ AggStart
    \/ \E op \in AggOps, opParms \in OpParms : AggStage(op, opParms)
    \/ AggRun
    \/ AggRunAll
    \/ Next
    \/ IterErr

SpecAggRun == Init /\ [][AggRunStep]_vars

\* The streams one facade opens: Find and AggRun open one, Next and CloseIter close.
StreamStep ==
    \/ \E c \in Criterias : Find(c, <<>>)
    \/ AggRun
    \/ Next
    \/ CloseIter

SpecStream == Init /\ [][StreamStep]_vars

\* Iteration: Find opens a stream, Next / IterErr / CloseIter walk and close it.
IterStep ==
    \/ \E n \in Limits : SetLimit(n)
    \/ \E c \in Criterias : Find(c, <<>>)
    \/ Next
    \/ IterErr
    \/ CloseIter

SpecIter == Init /\ [][IterStep]_vars

\* CreateSortOrder alone, applied once to every list of at most MaxKeyFlds tokens.
SortInit ==
    /\ collectionName = "property"
    /\ projectFlds = NilM
    /\ bulkWrites = <<>>
    /\ iter = NilCursor
    /\ iterErr = NoErr
    /\ limit = 0
    /\ upsert = FALSE
    /\ AggPipeline = <<>>
    /\ orphans = 0
    /\ seqs = NoSeqs
    /\ stored = [c \in Collections |-> {}]
    /\ sinceStart = NoHistory
    /\ \E keyFlds \in KeyFldLists : last = [Call("keyFlds") EXCEPT !.flds = keyFlds]

CallCreateSortOrder ==
    /\ last.op = "keyFlds"
    /\ last' = [last EXCEPT !.op = "CreateSortOrder",
                   !.ret = IF CreateSortOrder(last.flds).panic
                             THEN Panic
                             ELSE [Return EXCEPT !.order = CreateSortOrder(last.flds).order]]
    /\ UNCHANGED <<collectionName, projectFlds, bulkWrites, iter, iterErr, limit, upsert,
                   orphans>>
    /\ UNCHANGED <<sinceStart, stored, AggPipeline>>
    /\ UNCHANGED seqs

SortStep == CallCreateSortOrder

SpecSort == SortInit /\ [][SortStep]_vars

(***************************************************************************)
(* AggLookupId against the store.  The records of the current collection   *)
(* hold their local field; the records of the foreign collection are       *)
(* stored["location"].                                                     *)
(***************************************************************************)
AsNames == {"", "loc"}
LookupRecs == SeqsUpTo({[location_id |-> d] : d \in Docs}, MaxDocs)

\* What joined record number rec looks like: the foreign record doc embedded as a
\* single value under the field key.
Joined(rec, key, doc) == [rec |-> rec, key |-> key, doc |-> doc]

\* collection.Aggregate on the pipeline <<$lookup, $unwind>>: the store refuses an
\* empty "as" name ("$unwind": "$" is no field path); otherwise $lookup puts under
\* "as" the list of the foreign records whose _id is the record's local value, and
\* $unwind yields one record per element of that list, none for an empty list.
StoreLookupUnwind(pipeline, recs, foreign) ==
    IF pipeline[1].value.as = ""
        THEN [Return EXCEPT !.err = "errStore"]
        ELSE [Return EXCEPT !.docs =
                SelectSeq([i \in DOMAIN recs |->
                              Joined(i, pipeline[1].value.as,
                                     recs[i][pipeline[1].value.localField])],
                          LAMBDA r : r.doc \in foreign)]

LookupInit ==
    /\ collectionName = "property"
    /\ projectFlds = NilM
    /\ bulkWrites = <<>>
    /\ iter = NilCursor
    /\ iterErr = NoErr
    /\ limit = 0
    /\ upsert = FALSE
    /\ AggPipeline = <<>>
    /\ orphans = 0
    /\ seqs = NoSeqs
    /\ sinceStart = NoHistory
    /\ \E foreign \in SUBSET Docs : stored = [property |-> {}, location |-> foreign]
    /\ \E recs \in LookupRecs, asName \in AsNames :
         last = [Call("records") EXCEPT !.recs = recs,
                     !.args.fromCollection = "location",
                     !.args.localField = "location_id", !.args.asName = asName]

\* AggStart, AggLookupId(fromCollection, localField, asName), and the pipeline run
\* with every result decoded.
CallAggLookupId ==
    /\ last.op = "records"
    /\ AggPipeline' = AggLookupStages(last.args.fromCollection, last.args.localField,
                                       last.args.asName)
    /\ last' = [last EXCEPT !.op = "AggLookupId",
                   !.req = [NoReq EXCEPT !.kind = "aggregate",
                               !.collection = collectionName,
                               !.pipeline = AggPipeline'],
                   !.ret = StoreLookupUnwind(AggPipeline', last.recs,
                                             stored[last.args.fromCollection])]
    /\ UNCHANGED <<collectionName, projectFlds, bulkWrites, iter, iterErr, limit, upsert,
                   orphans, stored, sinceStart>>
    /\ UNCHANGED seqs

LookupStep == CallAggLookupId

SpecLookup == LookupInit /\ [][LookupStep]_vars

(***************************************************************************)
(* AggTotal against the store.  "tot_" + fld is the pair of "tot_" and fld. *)
(***************************************************************************)
Cities == {"Wonder", "Las Vegas"}
TotalRecs == SeqsUpTo({[city |-> c, sum_fld1 |-> v] : c \in Cities, v \in {7, 10}}, MaxRecs)
SumFldLists == {<<>>, <<"sum_fld1">>}

\* An output field of a $group stage: {"$sum": 1} or {"$sum": "$" + fld}.
CountAccumulator == [name |-> <<"count">>, one |-> TRUE, path |-> <<>>]
SumAccumulator(fld) == [name |-> <<"tot_", fld>>, one |-> FALSE, path |-> Dollar(fld)]

\* totals(groupByField, sumFields...): one grouping stage keyed by groupByField.
AggTotalStage(groupField, flds) ==
    Stage(Dollar("group"),
          [NoValue EXCEPT !.id = Dollar(groupField),
                          !.accumulators = {CountAccumulator}
                               \cup {SumAccumulator(f) : f \in Range(flds)}])

RECURSIVE SumOf(_, _)
SumOf(recs, fld) == IF recs = <<>> THEN 0 ELSE Head(recs)[fld] + SumOf(Tail(recs), fld)

\* collection.Aggregate on a $group stage: one output record per value of the key,
\* each accumulator summed over the records of the group.
StoreGroup(stage, recs) ==
    {[id |-> g,
      fields |-> {[name |-> a.name,
                   v |-> LET group == SelectSeq(recs, LAMBDA r : r[stage.value.id[2]] = g)
                         IN  IF a.one THEN Len(group) ELSE SumOf(group, a.path[2])] :
                    a \in stage.value.accumulators}] :
        g \in {recs[i][stage.value.id[2]] : i \in DOMAIN recs}}

TotalInit ==
    /\ collectionName = "property"
    /\ projectFlds = NilM
    /\ bulkWrites = <<>>
    /\ iter = NilCursor
    /\ iterErr = NoErr
    /\ limit = 0
    /\ upsert = FALSE
    /\ AggPipeline = <<>>
    /\ orphans = 0
    /\ seqs = NoSeqs
    /\ stored = [c \in Collections |-> {}]
    /\ sinceStart = NoHistory
    /\ \E recs \in TotalRecs, flds \in SumFldLists :
         last = [Call("records") EXCEPT !.recs = recs, !.flds = flds,
                     !.args.groupField = "city"]

\* AggStart, AggTotal(groupField, flds...), and the pipeline run with every result
\* decoded.
CallAggTotal ==
    /\ last.op = "records"
    /\ AggPipeline' = AggAppend(<<>>, AggTotalStage(last.args.groupField, last.flds))
    /\ last' = [last EXCEPT !.op = "AggTotal",
                   !.req = [NoReq EXCEPT !.kind = "aggregate",
                               !.collection = collectionName,
                               !.pipeline = AggPipeline'],
                   !.ret = [Return EXCEPT
                               !.groups = StoreGroup(AggPipeline'[Len(AggPipeline')],
                                                     last.recs)]]
    /\ UNCHANGED <<collectionName, projectFlds, bulkWrites, iter, iterErr, limit, upsert,
                   orphans, stored, sinceStart>>
    /\ UNCHANGED seqs

TotalStep == CallAggTotal

SpecTotal == TotalInit /\ [][TotalStep]_vars

(***************************************************************************)
(* Changing the collection while values are staged: the setters, a batch   *)
(* and a pipeline under construction, SetCollection, and the two calls     *)
(* that submit a batch or a pipeline.                                      *)
(***************************************************************************)
CollStep ==
    \/ \E name \in Collections : SetCollection(name)
    \/ SetLimit(1)
    \/ Upsert
    \/ Keep(<<"city">>)
    \/ BulkAddInsert("d1")
    \/ BulkWrite
    \/ AggStage("match", "parms")
    \/ AggRun

SpecColl == Init /\ [][CollStep]_vars

(***************************************************************************)
(* A limit and an upsert flag staged and left pending while every other    *)
(* method of the facade is called, each with one argument.  The batch and  *)
(* the pipeline get one entry at a time: a builder method is called while  *)
(* neither holds anything.                                                 *)
(***************************************************************************)
NothingBuilt == bulkWrites = <<>> /\ sinceStart = NoHistory /\ AggPipeline = <<>>

PendingStep ==
    \/ SetLimit(1)
    \/ Upsert
    \/ Find(EmptyD, <<>>)
    \/ FindAll(EmptyD, <<>>)
    \/ FindOne(EmptyD, <<>>)
    \/ FindId("d1")
    \/ Count(EmptyD)
    \/ Update(SomeCriteria)
    \/ Replace(SomeCriteria)
    \/ UpdateId("d1")
    \/ Insert(<<"d1">>)
    \/ BulkStart
    \/ NothingBuilt /\ BulkAddInsert("d1")
    \/ NothingBuilt /\ BulkAddUpdate(SomeCriteria)
    \/ BulkWrite
    \/ AggStart
    \/ NothingBuilt /\ AggStage("match", "parms")
    \/ NothingBuilt /\ AggLookupId("location", "location_id", "loc")
    \/ NothingBuilt /\ AggKeep(<<"city">>)
    \/ NothingBuilt /\ AggSort(<<(<<"-", "a">>)>>)
    \/ AggRun

SpecPending == Init /\ [][PendingStep]_vars

(***************************************************************************)
(* One facade shared by two call sequences.  The methods take no lock and  *)
(* keep the staged values in the fields of the one Mog, so the calls of    *)
(* the two sequences interleave; a method is taken as one step, which is   *)
(* one of the schedules an unsynchronized program has.  DoX is method X by *)
(* whichever sequence calls it.                                            *)
(***************************************************************************)
FldOf(p) == IF p = 1 THEN "city" ELSE "st"
DocOf(p) == IF p = 1 THEN "d1" ELSE "d2"

SharedInit ==
    /\ collectionName = "property"
    /\ projectFlds = NilM
    /\ bulkWrites = <<>>
    /\ iter = NilCursor
    /\ iterErr = NoErr
    /\ limit = 0
    /\ upsert = FALSE
    /\ AggPipeline = <<>>
    /\ orphans = 0
    /\ seqs \in [Sequences -> {[NoSeq EXCEPT !.prog = prog] : prog \in Programs}]
    /\ stored = [c \in Collections |-> {}]
    /\ sinceStart = NoHistory
    /\ last = Call("NewMog")

\* The staging call of sequence p.
StageCall(p) ==
    CASE seqs[p].prog = "limit"      -> DoSetLimit(p)
      [] seqs[p].prog = "projection" -> DoKeep(<<FldOf(p)>>)
      [] seqs[p].prog = "upsert"     -> DoUpsert
      [] seqs[p].prog = "batch"      -> DoBulkAddInsert(DocOf(p))
      [] seqs[p].prog = "iterator"   -> DoFind(EmptyD, <<>>)

\* The call of sequence p that is meant to use what p staged.
UseCall(p) ==
    CASE seqs[p].prog = "limit"      -> DoFind(EmptyD, <<>>)
      [] seqs[p].prog = "projection" -> DoFind(EmptyD, <<>>)
      [] seqs[p].prog = "upsert"     -> DoUpdate(SomeCriteria)
      [] seqs[p].prog = "batch"      -> DoBulkWrite
      [] seqs[p].prog = "iterator"   -> DoNext

\* This step takes away or replaces what sequence q staged: the field holding it
\* changes, or for a batch the entry q added leaves the batch.
StagedValueHit(q) ==
    CASE seqs[q].prog = "limit"      -> limit' # limit
      [] seqs[q].prog = "projection" -> projectFlds' # projectFlds
      [] seqs[q].prog = "upsert"     -> upsert' # upsert
      [] seqs[q].prog = "batch"      ->
             /\ InsertOneModel(DocOf(q)) \in Range(bulkWrites)
             /\ InsertOneModel(DocOf(q)) \notin Range(bulkWrites')
      [] seqs[q].prog = "iterator"   -> iter' # iter \/ orphans' # orphans

\* The second call of sequence p went out without what p staged: judged by the
\* request the call sent, or for Next by the stream it read from.
RanWithout(p) ==
    CASE seqs[p].prog = "limit"      -> last'.req.limit # LimitOption(p)
      [] seqs[p].prog = "projection" ->
             last'.req.projection # ProjectionOption(KeepFlds(<<FldOf(p)>>))
      [] seqs[p].prog = "upsert"     -> last'.req.upsert # UpsertOption(TRUE)
      [] seqs[p].prog = "batch"      ->
             InsertOneModel(DocOf(p)) \notin Range(last'.req.models)
      [] seqs[p].prog = "iterator"   -> <<iter, orphans>> # seqs[p].staged

\* The other sequences that have staged and not yet used are hit when the step of
\* p takes away or replaces what they staged.
OthersAfter(p, q) ==
    IF q # p /\ seqs[q].pc = "staged" /\ StagedValueHit(q)
      THEN [seqs[q] EXCEPT !.hit = TRUE]
      ELSE seqs[q]

SeqStage(p) ==
    /\ seqs[p].pc = "start"
    /\ StageCall(p)
    /\ seqs' = [q \in Sequences |->
                  IF q = p
                    THEN [seqs[p] EXCEPT !.pc = "staged",
                            !.staged = IF seqs[p].prog = "iterator"
                                         THEN <<iter', orphans'>> ELSE <<>>]
                    ELSE OthersAfter(p, q)]

SeqUse(p) ==
    /\ seqs[p].pc = "staged"
    /\ UseCall(p)
    /\ seqs' = [q \in Sequences |->
                  IF q = p
                    THEN [seqs[p] EXCEPT !.pc = "done", !.lost = RanWithout(p)]
                    ELSE OthersAfter(p, q)]

SharedStep ==
    \/ \E p \in Sequences : SeqStage(p)
    \/ \E p \in Sequences : SeqUse(p)

SpecShared == SharedInit /\ [][SharedStep]_vars

(***************************************************************************)
(* The claims.                                                             *)
(***************************************************************************)
SentRequest(call) == call.req.kind # "none"
LimitReaders == {"Find", "FindAll", "Count"}
ProjectionReaders == {"Find", "FindAll", "FindOne"}
UpsertReaders == {"Update", "Replace"}

\* C1: the limit is consumed exactly once.  A Find, FindAll or Count call that
\* reaches the store with a limit n > 0 pending passes n and leaves the pending
\* limit 0, whatever the store answers; with no limit pending it passes none; and
\* no call but SetLimit, Find, FindAll and Count changes the pending limit.
C1_LimitConsumedOnce ==
    [][ /\ (last'.op \in LimitReaders /\ SentRequest(last')) =>
              IF limit > 0
                THEN last'.req.limit = [set |-> TRUE, v |-> limit] /\ limit' = 0
                ELSE last'.req.limit = NoLimit /\ limit' = limit
        /\ (last'.op \notin LimitReaders \cup {"SetLimit"}) => limit' = limit
      ]_vars

\* C1 witness: a limit was passed on a call the store refused, and is no longer pending.
C1_Witness ==
    /\ last.op \in LimitReaders
    /\ last.req.limit.set /\ last.req.limit.v = MaxLimit
    /\ last.reply.kind = "errNil"
    /\ limit = 0

\* C2 (as claimed): a Find, FindAll or FindOne call that reaches the store clears
\* the pending projection.
C2_ProjectionClearedByFind ==
    [][ (last'.op \in ProjectionReaders /\ SentRequest(last')) => projectFlds'.nil ]_vars

\* C2 (amended): the pending projection is not consumed.  Every Find, FindAll and
\* FindOne call that reaches the store passes the pending projection (none when
\* none is pending) and leaves it pending; only Keep and Omit change it.
C2_ProjectionPersists ==
    [][ /\ (last'.op \in ProjectionReaders /\ SentRequest(last')) =>
              last'.req.projection =
                  (IF projectFlds.nil THEN NoProjection
                                      ELSE [set |-> TRUE, v |-> projectFlds.m])
        /\ (last'.op \notin {"Keep", "Omit"}) => projectFlds' = projectFlds
      ]_vars

\* C2 witness: after at least two Find calls, a find has passed the pending
\* projection and the same projection is still pending.
C2_Witness ==
    /\ last.op \in ProjectionReaders
    /\ last.req.projection.set
    /\ ~projectFlds.nil /\ last.req.projection.v = projectFlds.m
    /\ orphans > 0

\* C3: the upsert flag is consumed exactly once.  An Update with non-nil criteria
\* or a Replace passes upsert=true exactly when the flag is pending and leaves the
\* flag false; no call but Upsert, Update and Replace changes the flag.
C3_UpsertConsumedOnce ==
    [][ /\ (last'.op \in UpsertReaders /\ SentRequest(last')) =>
              /\ last'.req.upsert = (IF upsert THEN [set |-> TRUE, v |-> TRUE] ELSE NoUpsert)
              /\ upsert' = FALSE
        /\ (last'.op \notin UpsertReaders \cup {"Upsert"}) => upsert' = upsert
      ]_vars

\* C3 witness: upsert=true was passed to the store and the flag is reset.
C3_Witness ==
    /\ last.op \in UpsertReaders
    /\ last.req.upsert.set
    /\ ~upsert

\* C4: a store error on the request Find issues reaches the caller: the Next that
\* follows a refused Find returns and leaves that error in the held iteration error
\* (Find itself returns nothing).
C4_FindErrorObservable ==
    [][ (last.op = "Find" /\ last.reply.kind = "errNil" /\ last'.op = "Next") =>
            (last'.ret.kind = "return" /\ iterErr' = last.reply.err) ]_vars

\* C5: when the store's update-many or bulk-write call fails, Update and BulkWrite
\* return the store's error.
C5_WriteErrorReturned ==
    (last.op \in {"Update", "BulkWrite"} /\ last.reply.err # NoErr) =>
        (last.ret.kind = "return" /\ last.ret.err = last.reply.err)

\* C6: Find and FindAll never pass a nil filter: nil criteria is sent as the empty
\* document, any other criteria unchanged.
C6_FindFilterTranslated ==
    (last.op \in {"Find", "FindAll"} /\ SentRequest(last)) =>
        /\ ~last.req.filter.nil
        /\ last.req.filter = (IF last.criteria.nil THEN EmptyD ELSE last.criteria)

\* C7: FindOne and Count never pass a nil filter.
C7_FindOneCountFilterNotNil ==
    (last.op \in {"FindOne", "Count"} /\ SentRequest(last)) => ~last.req.filter.nil

\* C8: Update with nil criteria returns count 0 and an error and sends nothing to
\* the store; Update with any other criteria, the empty filter included, sends an
\* update-many request with that filter.
C8_UpdateNilRejected ==
    last.op = "Update" =>
        IF last.criteria.nil
          THEN /\ last.req = NoReq /\ last.reply = NoReply
               /\ last.ret.kind = "return" /\ last.ret.count = 0 /\ last.ret.err # NoErr
          ELSE /\ last.req.kind = "updateMany"
               /\ last.req.filter = last.criteria

\* C8 witness: a rejected Update, with an upsert flag pending.
C8_Witness == last.op = "Update" /\ last.criteria.nil /\ upsert

\* C9: CreateSortOrder returns, for every token list, a specification of the same
\* length whose i-th element is (token without its leading minus, -1) when token i
\* starts with "-" and (token, +1) otherwise.
C9_SortOrderMapsTokens ==
    last.op = "CreateSortOrder" =>
        /\ last.ret.kind = "return"
        /\ Len(last.ret.order) = Len(last.flds)
        /\ \A i \in DOMAIN last.flds :
             last.ret.order[i] =
                 (IF Len(last.flds[i]) > 0 /\ Head(last.flds[i]) = "-"
                    THEN [Key |-> Tail(last.flds[i]), Value |-> -1]
                    ELSE [Key |-> last.flds[i], Value |-> 1])

\* C10: Keep(flds) with at least one field leaves exactly {f -> 1 : f in flds}
\* pending, Omit(flds) exactly {f -> 0 : f in flds}; with no field they leave no
\* projection pending, and on a session with none pending they change nothing.
C10_KeepOmitReplace ==
    [][ (last'.op \in {"Keep", "Omit"}) =>
            /\ projectFlds' =
                 (IF Len(last'.flds) = 0
                    THEN NilM
                    ELSE [nil |-> FALSE,
                          m |-> [f \in Range(last'.flds) |->
                                    IF last'.op = "Keep" THEN 1 ELSE 0]])
            /\ (Len(last'.flds) = 0 /\ projectFlds.nil) =>
                 UNCHANGED <<collectionName, projectFlds, bulkWrites, iter, iterErr, limit,
                             upsert, AggPipeline, orphans>>
      ]_vars

\* C10 witness: Omit was called with MaxFlds field names and exactly those fields
\* are pending, each marked 0.
C10_Witness ==
    /\ last.op = "Omit"
    /\ Len(last.flds) = MaxFlds
    /\ projectFlds = [nil |-> FALSE, m |-> [f \in Range(last.flds) |-> 0]]

\* C11: on a stream whose records decode, Next returns true once per record, handing
\* out the records in stream order (each call the first record not yet handed out),
\* and returns false when the stream reports no more; the held iteration error is
\* then the stream's terminal error (nil when the stream ended after its last
\* record: Next stops before that only on a terminal error) and the stream is closed.
C11_CleanIteration ==
    [][ (last'.op = "Next" /\ ~iter.nil /\ last'.reply.kind # "undecodable") =>
            /\ last'.ret.kind = "return"
            /\ \A i \in DOMAIN iter.recs : iter.recs[i] = iter.recs[1] + i - 1
            /\ IF last'.ret.more
                 THEN /\ ~iter.closed
                      /\ iter.recs # <<>>
                      /\ last'.ret.doc = iter.recs[1]
                      /\ iter'.recs = SubSeq(iter.recs, 2, Len(iter.recs))
                      /\ iterErr' = iterErr
                 ELSE /\ last'.reply.kind = "noMore"
                      /\ iterErr' = last'.reply.err
                      /\ iter'.closed
                      /\ iter'.recs = iter.recs
                      /\ (~iter.closed /\ iter.recs # <<>>) => last'.reply.err # NoErr
      ]_vars

\* C11 witness: Next returned false on a stream that ended cleanly after its last
\* record: no held error, the stream closed, no other stream left open.
C11_Witness ==
    /\ last.op = "Next"
    /\ last.reply.kind = "noMore"
    /\ last.reply.err = NoErr
    /\ ~last.ret.more
    /\ iter.recs = <<>>
    /\ iter.closed
    /\ iterErr = NoErr
    /\ orphans = 0

\* C12: a Next call whose record fails to decode returns false and delivers no
\* record, the held iteration error is exactly that decode error, and IterErr
\* called next returns exactly that error.
C12_DecodeFailureEndsLoop ==
    [][ /\ (last'.op = "Next" /\ last'.reply.kind = "undecodable") =>
              /\ last'.ret.kind = "return"
              /\ ~last'.ret.more
              /\ last'.ret.doc = 0
              /\ last'.reply.err # NoErr
              /\ iterErr' = last'.reply.err
        /\ (last.op = "Next" /\ last.reply.kind = "undecodable" /\ last'.op = "IterErr") =>
              last'.ret.err = last.reply.err
      ]_vars

\* C12 witness: IterErr returned the decode error of the Next call before it, while
\* the stream still holds a record and is open.
C12_Witness ==
    /\ last.op = "IterErr"
    /\ last.ret.err = ErrDecode
    /\ ~iter.nil
    /\ ~iter.closed
    /\ iter.recs # <<>>

\* C13 (as claimed): the batch BulkWrite submits is the sequence of ALL the add
\* calls made since the most recent BulkStart, in call order.
C13_BatchIsAllSinceBulkStart ==
    (last.op = "BulkWrite") =>
        last.req.models =
            [i \in DOMAIN sinceStart.ops |->
                IF sinceStart.ops[i].op = "BulkAddInsert"
                  THEN [type |-> "insertOne", doc |-> sinceStart.ops[i].doc,
                        filter |-> NilCriteria]
                  ELSE [type |-> "updateMany", doc |-> "",
                        filter |-> sinceStart.ops[i].criteria]]

\* C13 (amended): the batch BulkWrite submits is the sequence, in call order and
\* each once, of the add calls made since the most recent BulkStart or BulkWrite,
\* whichever came later; what was added before it is not submitted.
C13_BatchSinceStartOrWrite ==
    [][ (last'.op = "BulkWrite") =>
            last'.req.models =
                [i \in 1..(Len(sinceStart.ops) - sinceStart.submitted) |->
                    LET h == sinceStart.ops[sinceStart.submitted + i]
                    IN  IF h.op = "BulkAddInsert"
                          THEN [type |-> "insertOne", doc |-> h.doc,
                                filter |-> NilCriteria]
                          ELSE [type |-> "updateMany", doc |-> "",
                                filter |-> h.criteria]]
      ]_vars

\* C13 witness: BulkWrite submitted a batch of two operations, after an earlier
\* BulkWrite had submitted another operation added since the same BulkStart.
C13_Witness ==
    /\ last.op = "BulkWrite"
    /\ Len(last.req.models) = 2
    /\ last.req.models[1] # last.req.models[2]
    /\ Len(sinceStart.ops) > Len(last.req.models)

\* C14: every BulkWrite call leaves mog.bulkWrites empty, whatever the store
\* answered (the whole batch applied, a part applied, nothing applied), and a
\* BulkWrite that directly follows another submits no operation.
C14_BatchEmptyAfterBulkWrite ==
    [][ /\ (last'.op = "BulkWrite") => bulkWrites' = <<>>
        /\ (last.op = "BulkWrite" /\ last'.op = "BulkWrite") => last'.req.models = <<>>
      ]_vars

\* C14 witness: the store refused a full batch outright (no result object) and the
\* batch is empty after the call.
C14_Witness ==
    /\ last.op = "BulkWrite"
    /\ Len(last.req.models) = MaxBulk
    /\ last.reply.kind = "errNil"
    /\ bulkWrites = <<>>

\* C15: when every operation added since BulkStart is an insert of a document that
\* is new to the current collection, the documents are distinct, and the store
\* applies the batch BulkWrite submits, the current collection holds exactly N more
\* documents than before, N the number of inserts added; other collections keep
\* theirs.
C15_BulkInsertsAddDocs ==
    [][ ( /\ last'.op = "BulkWrite"
          /\ last'.reply.kind = "ok"
          /\ sinceStart.submitted = 0
          /\ \A i \in DOMAIN sinceStart.ops :
                /\ sinceStart.ops[i].op = "BulkAddInsert"
                /\ sinceStart.ops[i].doc \notin stored[collectionName]
                /\ \A j \in DOMAIN sinceStart.ops :
                      j # i => sinceStart.ops[j].doc # sinceStart.ops[i].doc ) =>
            /\ Cardinality(stored'[collectionName]) =
                   Cardinality(stored[collectionName]) + Len(sinceStart.ops)
            /\ \A c \in Collections \ {collectionName} : stored'[c] = stored[c]
      ]_vars

\* C15 witness: a batch of MaxBulk inserts was applied to the collection "location",
\* which now holds MaxBulk documents.
C15_Witness ==
    /\ last.op = "BulkWrite"
    /\ last.reply.kind = "ok"
    /\ collectionName = "location"
    /\ Len(last.req.models) = MaxBulk
    /\ \A i \in DOMAIN last.req.models : last.req.models[i].type = "insertOne"
    /\ sinceStart.ops # <<>>
    /\ Cardinality(stored["location"]) = MaxBulk

\* C16: when the store hands back a result object, BulkWrite returns its inserted
\* count plus its modified count; for an applied batch the inserted count is the
\* number N of inserts submitted, so the value is N + M, M the modified count.
C16_BulkWriteReturnsSum ==
    (last.op = "BulkWrite" /\ last.reply.kind \in {"ok", "errRes"}) =>
        /\ last.ret.kind = "return"
        /\ last.ret.count = last.reply.n1 + last.reply.n2
        /\ last.reply.kind = "ok" =>
              last.ret.count =
                 Cardinality({i \in DOMAIN last.req.models :
                                 last.req.models[i].type = "insertOne"})
                 + last.reply.n2

\* C16 witness: a batch of one insert and one update was applied, the update
\* modified MaxCount documents, and BulkWrite returned 1 + MaxCount.
C16_Witness ==
    /\ last.op = "BulkWrite"
    /\ last.reply.kind = "ok"
    /\ Len(last.req.models) = 2
    /\ last.reply.n1 = 1
    /\ last.reply.n2 = MaxCount
    /\ last.ret.count = 1 + MaxCount

\* C17: when the store answers FindId or FindOne with its no-documents condition,
\* the method returns exactly that condition and loads nothing into the target;
\* FindId of an _id that is not in the current collection never returns a nil
\* error, and returns another error only when the store itself failed with it.
C17_NoDocumentsReturned ==
    /\ (last.op \in {"FindId", "FindOne"} /\ last.reply.err = "ErrNoDocuments") =>
          /\ last.ret.kind = "return"
          /\ last.ret.err = "ErrNoDocuments"
          /\ last.ret.doc = 0
    /\ (last.op = "FindId" /\ last.args.doc \notin stored[collectionName]) =>
          /\ last.ret.kind = "return"
          /\ last.ret.err # NoErr
          /\ last.ret.doc = 0
          /\ last.ret.err # "ErrNoDocuments" =>
                (last.reply.err \in StoreErrs /\ last.ret.err = last.reply.err)

\* C17 witness: FindId of "d2" in a collection that holds only "d1" returned the
\* no-documents condition.
C17_Witness ==
    /\ last.op = "FindId"
    /\ last.args.doc = "d2"
    /\ stored[collectionName] = {"d1"}
    /\ last.ret.err = "ErrNoDocuments"

\* C18: AggStart leaves AggPipeline empty and every other call extends it by the
\* stages it appends, in call order: AggStage(op, p) by the one stage {"$"+op: p},
\* AggKeep by one $project stage marking each named field 1, AggSort by one $sort
\* stage holding (name, -1) for a token "-name" and (token, +1) for any other,
\* AggLookupId by the $lookup stage followed by the $unwind stage; no other call
\* changes it.
C18_PipelineIsStagesAppended ==
    [][ /\ (last'.op = "AggStart") => AggPipeline' = <<>>
        /\ (last'.op = "AggStage") =>
              AggPipeline' = AggPipeline \o
                <<[opCode |-> <<"$", last'.args.opCode>>,
                   value |-> [NoValue EXCEPT !.opParms = last'.args.opParms]]>>
        /\ (last'.op = "AggKeep") =>
              AggPipeline' = AggPipeline \o
                <<[opCode |-> <<"$", "project">>,
                   value |-> [NoValue EXCEPT
                                !.flds = {<<f, 1>> : f \in Range(last'.flds)}]]>>
        /\ (last'.op = "AggSort") =>
              AggPipeline' = AggPipeline \o
                <<[opCode |-> <<"$", "sort">>,
                   value |-> [NoValue EXCEPT !.order =
                      [i \in DOMAIN last'.flds |->
                         IF Len(last'.flds[i]) > 0 /\ Head(last'.flds[i]) = "-"
                           THEN [Key |-> Tail(last'.flds[i]), Value |-> -1]
                           ELSE [Key |-> last'.flds[i], Value |-> 1]]]]>>
        /\ (last'.op = "AggLookupId") =>
              AggPipeline' = AggPipeline \o
                <<[opCode |-> <<"$", "lookup">>,
                   value |-> [NoValue EXCEPT !.from = last'.args.fromCollection,
                                             !.localField = last'.args.localField,
                                             !.foreignField = "_id",
                                             !.as = last'.args.asName]],
                  [opCode |-> <<"$", "unwind">>,
                   value |-> [NoValue EXCEPT !.path = <<"$", last'.args.asName>>]]>>
        /\ (last'.op \notin {"AggStart", "AggStage", "AggKeep", "AggSort", "AggLookupId"}) =>
              AggPipeline' = AggPipeline
      ]_vars

\* C19: AggRun and AggRunAll submit AggPipeline as it is and leave it as it was,
\* whether the store answered with a result or with an error; so a run that
\* directly follows a run submits the same pipeline, and a stage appended after a
\* run extends the pipeline that was run.
C19_RunKeepsPipeline ==
    [][ /\ (last'.op \in {"AggRun", "AggRunAll"}) =>
              /\ AggPipeline' = AggPipeline
              /\ last'.req.kind = "aggregate"
              /\ last'.req.pipeline = AggPipeline
        /\ (last.op \in {"AggRun", "AggRunAll"} /\ last'.op \in {"AggRun", "AggRunAll"}) =>
              last'.req.pipeline = last.req.pipeline
        /\ (last.op \in {"AggRun", "AggRunAll"} /\ last'.op = "AggStage") =>
              /\ Len(AggPipeline') = Len(last.req.pipeline) + 1
              /\ SubSeq(AggPipeline', 1, Len(last.req.pipeline)) = last.req.pipeline
      ]_vars

\* C19 witness: AggRun failed in the store on a pipeline of MaxStages stages, and
\* the pipeline is still those stages.
C19_Witness ==
    /\ last.op = "AggRun"
    /\ last.reply.err # NoErr
    /\ Len(AggPipeline) = MaxStages
    /\ AggPipeline = last.req.pipeline

\* C20: AggRun and AggRunAll send the same request; for a store answer of k records
\* AggRun puts the stream of the records 1 .. k in mog.iter, from which the Next
\* loop delivers 1 .. k in this order (C11), and AggRunAll, when every record
\* decodes, fills its target with the records 1 .. k in this order and leaves
\* mog.iter and the streams it held as they were.
C20_RunAllSameAsRun ==
    [][ /\ (last'.op \in {"AggRun", "AggRunAll"}) =>
              last'.req = [NoReq EXCEPT !.kind = "aggregate",
                                        !.collection = collectionName,
                                        !.pipeline = AggPipeline]
        /\ (last'.op = "AggRun" /\ last'.reply.kind = "ok") =>
              iter' = [nil |-> FALSE, recs |-> [i \in 1..last'.reply.k |-> i],
                       closed |-> FALSE]
        /\ (last'.op = "AggRunAll") =>
              /\ iter' = iter
              /\ orphans' = orphans
              /\ (last'.reply.kind = "ok" /\ last'.ret.err = NoErr) =>
                    last'.ret.docs = [i \in 1..last'.reply.k |-> i]
      ]_vars

\* C20 witness: AggRunAll filled its target with MaxDocs records while mog.iter
\* holds an open stream of an earlier AggRun, untouched.
C20_Witness ==
    /\ last.op = "AggRunAll"
    /\ Len(last.ret.docs) = MaxDocs
    /\ ~iter.nil
    /\ ~iter.closed
    /\ iter.recs # <<>>
    /\ orphans = 0

\* C21: AggLookupId run over the records of the current collection yields, in
\* stream order, exactly the records whose local value is the _id of a foreign
\* record, each once, with that foreign record embedded as a single value under the
\* result name: the name given, or the foreign collection's name when none is given.
C21_LookupIsInnerJoin ==
    (last.op = "AggLookupId" /\ last.req.kind = "aggregate") =>
        LET name == IF last.args.asName = "" THEN last.args.fromCollection
                    ELSE last.args.asName
            all == [i \in DOMAIN last.recs |->
                       [rec |-> i, key |-> name, doc |-> last.recs[i].location_id]]
        IN  /\ last.ret.err = NoErr
            /\ last.ret.docs =
                 SelectSeq(all, LAMBDA r : r.doc \in stored[last.args.fromCollection])

\* C22: AggTotal(groupField, f1..fk) after AggStart leaves exactly one stage, a
\* $group stage keyed by "$" + groupField, and run over the records it yields one
\* record per value of groupField with the field count, the number of records of
\* the group, and for each fi the field tot_fi, the sum of fi over the group.
C22_TotalGroupsCountAndSums ==
    (last.op = "AggTotal") =>
        /\ Len(AggPipeline) = 1
        /\ AggPipeline[1].opCode = <<"$", "group">>
        /\ AggPipeline[1].value.id = <<"$", last.args.groupField>>
        /\ last.ret.groups =
             {[id |-> g,
               fields |->
                 {[name |-> <<"count">>,
                   v |-> Cardinality({i \in DOMAIN last.recs : last.recs[i].city = g})]}
                 \cup {[name |-> <<"tot_", f>>,
                        v |-> SumOf(SelectSeq(last.recs, LAMBDA r : r.city = g), f)] :
                          f \in Range(last.flds)}] :
                g \in {last.recs[i].city : i \in DOMAIN last.recs}}

\* C22 witness: over records holding Wonder with sum_fld1 7 and 10, the group Wonder
\* has count 2 and tot_sum_fld1 17.
C22_Witness ==
    /\ last.op = "AggTotal"
    /\ last.flds = <<"sum_fld1">>
    /\ [id |-> "Wonder",
        fields |-> {[name |-> <<"count">>, v |-> 2],
                    [name |-> <<"tot_", "sum_fld1">>, v |-> 17]}] \in last.ret.groups
    /\ \E g \in last.ret.groups : g.id = "Las Vegas"

\* C23: in every state, for every criteria and every sort fields that
\* CreateSortOrder accepts, the request FindAll sends is the request Find sends
\* (collection, filter, sort, projection, limit).
C23_FindAllSameRequestAsFind ==
    \A criteria \in Criterias, sortFlds \in SortArgs :
        ~SortPanics(sortFlds) =>
            FindAllRequest(criteria, sortFlds) = FindRequest(criteria, sortFlds)

\* C24: at any time at most one native stream opened through the facade is open:
\* the one in mog.iter, if it is open, and no stream that mog.iter no longer holds.
C24_AtMostOneOpenStream ==
    (IF IsOpen(iter) THEN 1 ELSE 0) + orphans <= 1

\* C25: two call sequences that share one facade race on its staging fields.  The
\* second call of a sequence goes out without what the sequence staged exactly when
\* a call of the other sequence changed the staging field in between, and a Find by
\* the other sequence always does that to a staged limit.
C25_SharedFacadeRaces ==
    [][\A p \in Sequences :
         /\ seqs'[p].pc = "done" => (seqs'[p].lost <=> seqs'[p].hit)
         /\ \A q \in Sequences \ {p} :
              ( /\ seqs[p].pc = "staged" /\ seqs[p].prog = "limit"
                /\ seqs[q].pc # seqs'[q].pc
                /\ last'.op = "Find" )
              => seqs'[p].hit]_vars

\* Sequence 1 staged the limit 1, the Find of sequence 2 consumed it, and the Find
\* of sequence 1 was sent without a limit.
C25_Witness ==
    /\ seqs[1].prog = "limit" /\ seqs[1].pc = "done" /\ seqs[1].lost
    /\ seqs[2].prog = "projection" /\ seqs[2].pc = "done" /\ ~seqs[2].lost
    /\ last.op = "Find" /\ last.req.limit = NoLimit

\* C26: whenever Next has returned false, for exhaustion or for a decode failure,
\* the stream it read from is closed.
C26_FalseMeansClosed ==
    (last.op = "Next" /\ last.ret.kind = "return" /\ ~last.ret.more) => iter.closed

\* C27: an Update rejected for nil criteria changes nothing the facade holds (upsert
\* flag, limit, projection, batch, pipeline, iterator, held error, collection), and
\* an upsert flag pending at the rejection is sent with the accepted Update or
\* Replace that comes next.
C27_RejectedUpdateKeepsState ==
    [][ /\ (last'.op = "Update" /\ last'.criteria.nil) =>
              UNCHANGED <<upsert, limit, projectFlds, bulkWrites, AggPipeline, iter,
                          iterErr, collectionName>>
        /\ ( /\ last.op = "Update" /\ last.criteria.nil /\ upsert
             /\ last'.op \in {"Update", "Replace"} /\ SentRequest(last') )
           => (last'.req.upsert = SetTo(TRUE) /\ ~upsert')
      ]_vars

\* C27 witness: Update was rejected for nil criteria while an upsert flag and a
\* batch entry were pending, and both are still pending.
C27_Witness ==
    /\ last.op = "Update" /\ last.criteria.nil /\ last.ret.err = ErrNilCriteria
    /\ last.req = NoReq
    /\ upsert
    /\ bulkWrites = <<InsertOneModel("d1")>>

\* C28: SetCollection changes only the current collection (limit, upsert flag,
\* projection, batch, pipeline, iterator and held error stay as they are), and
\* BulkWrite and AggRun submit the whole pending batch or pipeline to the collection
\* that is current when they are called.
C28_SetCollectionOnlyCollection ==
    [][ /\ last'.op = "SetCollection" =>
              UNCHANGED <<limit, upsert, projectFlds, bulkWrites, AggPipeline, iter,
                          iterErr>>
        /\ last'.op = "BulkWrite" =>
              (last'.req.collection = collectionName /\ last'.req.models = bulkWrites)
        /\ (last'.op = "AggRun" /\ SentRequest(last')) =>
              (last'.req.collection = collectionName /\ last'.req.pipeline = AggPipeline)
      ]_vars

\* C28 witness: SetCollection has just switched to "location" with a limit, an upsert
\* flag, a projection, a batch entry and a pipeline stage pending.
C28_Witness ==
    /\ last.op = "SetCollection"
    /\ collectionName = "location"
    /\ limit = 1 /\ upsert /\ ~projectFlds.nil
    /\ bulkWrites = <<InsertOneModel("d1")>>
    /\ Len(AggPipeline) = 1

\* C29: a method that does not read a staging field leaves it pending.  FindOne,
\* FindId, Update, Replace, UpdateId, Insert and the Bulk and Agg methods leave the
\* limit as it is, UpdateId, the find methods and Count leave the upsert flag as it
\* is, and the request of the next method that does read the field carries the
\* value still pending.
LimitBystanders ==
    {"FindOne", "FindId", "Update", "Replace", "UpdateId", "Insert", "BulkStart",
     "BulkAddInsert", "BulkAddUpdate", "BulkWrite", "AggStart", "AggStage",
     "AggLookupId", "AggKeep", "AggSort", "AggRun"}
UpsertBystanders == {"UpdateId", "Find", "FindAll", "FindOne", "FindId", "Count"}

C29_BystandersLeavePending ==
    [][ /\ last'.op \in LimitBystanders => limit' = limit
        /\ last'.op \in UpsertBystanders => upsert' = upsert
        /\ (last'.op \in LimitReaders /\ SentRequest(last')) =>
              last'.req.limit = (IF limit > 0 THEN SetTo(limit) ELSE NoLimit)
        /\ (last'.op \in UpsertReaders /\ SentRequest(last')) =>
              last'.req.upsert = (IF upsert THEN SetTo(TRUE) ELSE NoUpsert)
      ]_vars

\* C29 witness: Count was sent with the limit 1 after a document was inserted and a
\* pipeline stage added, and the upsert flag is still pending after it.
C29_Witness ==
    /\ last.op = "Count" /\ last.req.limit = SetTo(1)
    /\ limit = 0
    /\ upsert
    /\ stored["property"] = {"d1"}
    /\ AggPipeline # <<>>

\* C30: CreateSortOrder returns normally for every list of tokens, a list holding
\* the empty string or the bare token "-" included.
C30_SortOrderAlwaysReturns ==
    last.op = "CreateSortOrder" => last.ret.kind = "return"

====
